---- MODULE Spec2Model ----
(***************************************************************************)
(* Model of src/minimoog.py: the MiniMoog instrument and its NoiseMaker.    *)
(*                                                                         *)
(* The instrument is a fixed graph of engine nodes.  The model keeps, for  *)
(* every named node, whether it exists, which named nodes its constructor  *)
(* expression mentions (arithmetic on signals is flattened into the edge),  *)
(* whether it is running and whether it is routed to the output bus.       *)
(* Engine rule used throughout (pyo): a node is running from its creation; *)
(* play() makes it running and not routed, out() running and routed,       *)
(* stop() neither.                                                         *)
(***************************************************************************)
EXTENDS Integers, Sequences, FiniteSets, TLC

VARIABLES status, overload, nodes, inputs, running, toDac, calls, hist, order,
          nmStatus, nmRunning, nmDac, nmCalls, nmHist,
          pitch, bend, octave, detune, contour

lifeVars == <<status, overload, nodes, inputs, running, toDac, calls, hist, order>>
nmVars   == <<nmStatus, nmRunning, nmDac, nmCalls, nmHist>>
ctlVars  == <<pitch, bend, octave, detune, contour>>
vars     == <<status, overload, nodes, inputs, running, toDac, calls, hist, order,
              nmStatus, nmRunning, nmDac, nmCalls, nmHist,
              pitch, bend, octave, detune, contour>>

(***************************************************************************)
(* Bounds                                                                  *)
(***************************************************************************)
\* longest sequence of lifecycle calls made on one object
MaxCalls == 4
\* overload arguments tried by the constructor: -1..MaxOverload
MaxOverload == 2
\* octave sliders take 1..MaxOctave (the source's range is 1..16)
MaxOctave == 2
\* detune sliders take -MaxDetune..MaxDetune (the source's range is -7..7)
MaxDetune == 1
\* the contour amount a in [0,1] is contour / ContourSteps
ContourSteps == 4
\* the pitch bend b is bend / BendScale
BendScale == 10

Ops == {"play", "out", "stop"}
OverloadInputs == (-1)..MaxOverload

Last(s) == s[Len(s)]

(***************************************************************************)
(* Engine primitives on a lifecycle state [running, toDac]                 *)
(***************************************************************************)
PyoCall(st, n, m) ==
    CASE m = "play" -> [running |-> st.running \cup {n}, toDac |-> st.toDac \ {n}]
      [] m = "out"  -> [running |-> st.running \cup {n}, toDac |-> st.toDac \cup {n}]
      [] m = "stop" -> [running |-> st.running \ {n},    toDac |-> st.toDac \ {n}]

RECURSIVE RunCalls(_, _)
RunCalls(st, cs) ==
    IF cs = <<>> THEN st
    ELSE RunCalls(PyoCall(st, Head(cs)[1], Head(cs)[2]), Tail(cs))

(***************************************************************************)
(* NoiseMaker                                                              *)
(***************************************************************************)
NoiseNodes == {"noise1", "noise2", "selector"}

\* NoiseMaker.play: both sources, then the selector (base objects) by super().play
NoiseMaker_play ==
    << <<"noise1", "play">>, <<"noise2", "play">>, <<"selector", "play">> >>

\* NoiseMaker.stop: _noise1 twice, then the selector by super().stop
NoiseMaker_stop ==
    << <<"noise1", "stop">>, <<"noise1", "stop">>, <<"selector", "stop">> >>

\* NoiseMaker.out: _noise1.play twice, then the selector by super().out
NoiseMaker_out ==
    << <<"noise1", "play">>, <<"noise1", "play">>, <<"selector", "out">> >>

NoiseMakerCalls(m) ==
    CASE m = "play" -> NoiseMaker_play
      [] m = "stop" -> NoiseMaker_stop
      [] m = "out"  -> NoiseMaker_out

(***************************************************************************)
(* MiniMoog: construction                                                  *)
(***************************************************************************)
\* nodes created by lines 52-94, whatever the overload argument
FirstStageNodes ==
    {"notes", "bend", "osc1octave", "osc2octave", "osc3octave",
     "osc2detune", "osc3detune", "onoff1", "onoff2", "onoff3",
     "env", "filterenv", "contouramount", "lfof", "modwheel", "LFO",
     "osc1", "osc2", "osc3"} \cup NoiseNodes \cup
    {"mixed1", "ladderfilter1noadsr", "ladderfilter1withadsrenvelope"}

SecondStageNodes ==
    {"exitinput", "mixed2", "ladderfilter2withadsrenvelope", "ladderfilter2noadsr"}

OverloadBranch_NoRaise(ov) ==
    IF ov = 0 THEN "plain" ELSE "overload"

\* the if / elif / else of lines 97-118
OverloadBranch(ov) ==
    IF ov = 0 THEN "plain"
    ELSE IF ov = 1 THEN "overload"
    ELSE "error"

CreatedNodes(ov) ==
    CASE OverloadBranch(ov) = "plain"    -> FirstStageNodes \cup {"output"}
      [] OverloadBranch(ov) = "overload" -> FirstStageNodes \cup SecondStageNodes \cup {"output"}
      [] OTHER                           -> FirstStageNodes

FirstStageWiring ==
    [n \in FirstStageNodes |->
        CASE n \in {"env", "filterenv"} -> {"notes"}
          [] n = "LFO"  -> {"lfof", "modwheel"}
          [] n = "osc1" -> {"notes", "bend", "osc1octave", "env", "onoff1"}
          [] n = "osc2" -> {"notes", "bend", "osc2octave", "osc2detune", "env", "onoff2"}
          [] n = "osc3" -> {"notes", "bend", "osc3octave", "osc3detune", "env", "onoff3"}
          [] n \in {"noise1", "noise2"} -> {"env"}
          [] n = "selector" -> {"noise1", "noise2"}
          [] n = "mixed1" -> {"osc1", "osc2", "osc3", "selector"}
          [] n = "ladderfilter1noadsr" -> {"mixed1", "contouramount"}
          [] n = "ladderfilter1withadsrenvelope" -> {"mixed1", "filterenv", "contouramount"}
          [] OTHER -> {}]

Mixed2Inputs_NoFeedback == {"osc1", "osc2", "osc3", "selector"}

\* the list given to the second Mix, line 109
Mixed2Inputs == {"osc1", "osc2", "osc3", "selector", "exitinput"}

\* inputs of every created node, lines 52-115
Wiring(ov) ==
    [n \in CreatedNodes(ov) |->
        IF n \in FirstStageNodes THEN FirstStageWiring[n]
        ELSE IF OverloadBranch(ov) = "plain" THEN
            \* n = "output", line 100
            {"ladderfilter1noadsr", "ladderfilter1withadsrenvelope", "LFO"}
        ELSE
            CASE n = "exitinput" ->
                    {"ladderfilter1noadsr", "ladderfilter1withadsrenvelope", "LFO"}
              [] n = "mixed2" -> Mixed2Inputs
              [] n = "ladderfilter2withadsrenvelope" ->
                    {"mixed2", "filterenv", "contouramount"}
              [] n = "ladderfilter2noadsr" -> {"mixed2", "contouramount"}
              [] n = "output" ->
                    {"ladderfilter2noadsr", "ladderfilter2withadsrenvelope", "LFO"}]

\* every Sig control is created as Sig(1), lines 57-64 and 75
SigDefault == 1

NoOrder == [o \in Ops |-> <<>>]

\* MiniMoog.__init__
Construct(ov) ==
    /\ status = "none"
    /\ overload' = ov
    /\ nodes' = CreatedNodes(ov)
    /\ inputs' = Wiring(ov)
    /\ running' = CreatedNodes(ov)
    /\ toDac' = {}
    /\ calls' = <<>>
    /\ hist' = <<>>
    /\ order' = NoOrder
    /\ status' = IF OverloadBranch(ov) = "error" THEN "failed" ELSE "ok"
    /\ pitch' = 0
    /\ bend' = SigDefault * BendScale
    /\ octave' = [i \in 1..3 |-> SigDefault]
    /\ detune' = [i \in 2..3 |-> SigDefault]
    /\ contour' = SigDefault * ContourSteps
    /\ UNCHANGED nmVars

(***************************************************************************)
(* MiniMoog: lifecycle fan-out                                             *)
(***************************************************************************)
FirstStageTargets ==
    <<"osc2detune", "osc3detune", "onoff1", "onoff2", "onoff3",
      "noisegen", "osc1", "osc2", "osc3", "mixed1",
      "ladderfilter1noadsr", "ladderfilter1withadsrenvelope">>

SecondStageTargets(ov) ==
    IF ov = 1
    THEN <<"exitinput", "mixed2", "ladderfilter2noadsr", "ladderfilter2withadsrenvelope">>
    ELSE <<>>

HeadTargets ==
    <<"LFO", "modwheel", "lfof", "notes", "env", "filterenv", "contouramount", "bend">>

OctaveTargets == <<"osc1octave", "osc2octave", "osc3octave">>

PlayTargets_Short(ov) ==
    HeadTargets \o OctaveTargets \o FirstStageTargets \o
    (IF ov = 1 THEN <<"exitinput", "mixed2", "ladderfilter2noadsr">> ELSE <<>>)

\* the targets of MiniMoog.play in call order, lines 152-179
PlayTargets(ov) ==
    HeadTargets \o OctaveTargets \o FirstStageTargets \o SecondStageTargets(ov)

StopTargets_Swapped(ov) ==
    HeadTargets \o OctaveTargets \o OctaveTargets \o SecondStageTargets(ov) \o FirstStageTargets

\* the targets of MiniMoog.stop in call order, lines 183-213
StopTargets(ov) ==
    HeadTargets \o OctaveTargets \o OctaveTargets \o FirstStageTargets \o SecondStageTargets(ov)

\* the targets of MiniMoog.out in call order, lines 217-247
OutTargets(ov) ==
    HeadTargets \o OctaveTargets \o OctaveTargets \o FirstStageTargets \o SecondStageTargets(ov)

OutSubMethod_Out == "out"

\* the method MiniMoog.out calls on every sub-node
OutSubMethod == "play"

With(targets, m) == [i \in 1..Len(targets) |-> <<targets[i], m>>]

\* super().play / stop / out acts on the base objects of _output
MiniMoog_play(ov) == With(PlayTargets(ov), "play") \o << <<"output", "play">> >>
MiniMoog_stop(ov) == With(StopTargets(ov), "stop") \o << <<"output", "stop">> >>
MiniMoog_out(ov)  == With(OutTargets(ov), OutSubMethod) \o << <<"output", "out">> >>

\* a call on _noisegen runs the NoiseMaker method; every other call is a primitive
RECURSIVE Expand(_)
Expand(cs) ==
    IF cs = <<>> THEN <<>>
    ELSE (IF Head(cs)[1] = "noisegen"
          THEN NoiseMakerCalls(Head(cs)[2])
          ELSE <<Head(cs)>>) \o Expand(Tail(cs))

RECURSIVE FirstVisit(_)
FirstVisit(s) ==
    IF s = <<>> THEN <<>>
    ELSE LET r == FirstVisit(SubSeq(s, 1, Len(s) - 1))
             x == Last(s)
         IN IF \E i \in 1..Len(r) : r[i] = x THEN r ELSE Append(r, x)

Targets(cs) == [i \in 1..Len(cs) |-> cs[i][1]]

Lifecycle(op, cs) ==
    /\ status = "ok"
    /\ Len(hist) < MaxCalls
    /\ LET st == RunCalls([running |-> running, toDac |-> toDac], Expand(cs))
       IN /\ running' = st.running
          /\ toDac' = st.toDac
    /\ calls' = cs
    /\ hist' = Append(hist, op)
    /\ order' = [order EXCEPT ![op] = FirstVisit(Targets(cs))]
    /\ UNCHANGED <<status, overload, nodes, inputs>>
    /\ UNCHANGED nmVars
    /\ UNCHANGED ctlVars

Play == Lifecycle("play", MiniMoog_play(overload))
Stop == Lifecycle("stop", MiniMoog_stop(overload))
Out  == Lifecycle("out",  MiniMoog_out(overload))

Init ==
    /\ status = "none"
    /\ overload = 0
    /\ nodes = {}
    /\ inputs = <<>>
    /\ running = {}
    /\ toDac = {}
    /\ calls = <<>>
    /\ hist = <<>>
    /\ order = NoOrder
    /\ nmStatus = "none"
    /\ nmRunning = {}
    /\ nmDac = {}
    /\ nmCalls = <<>>
    /\ nmHist = <<>>
    /\ pitch = 0
    /\ bend = 0
    /\ octave = [i \in 1..3 |-> 0]
    /\ detune = [i \in 2..3 |-> 0]
    /\ contour = 0

Next ==
    \/ \E ov \in OverloadInputs : Construct(ov)
    \/ Play
    \/ Out
    \/ Stop

Spec == Init /\ [][Next]_vars

(***************************************************************************)
(* A NoiseMaker used on its own                                            *)
(***************************************************************************)
\* NoiseMaker.__init__
NoiseMaker_init ==
    /\ nmStatus = "none"
    /\ nmStatus' = "ok"
    /\ nmRunning' = NoiseNodes
    /\ nmDac' = {}
    /\ nmCalls' = <<>>
    /\ nmHist' = <<>>
    /\ UNCHANGED lifeVars
    /\ UNCHANGED ctlVars

NoiseLifecycle(op) ==
    /\ nmStatus = "ok"
    /\ Len(nmHist) < MaxCalls
    /\ LET st == RunCalls([running |-> nmRunning, toDac |-> nmDac], NoiseMakerCalls(op))
       IN /\ nmRunning' = st.running
          /\ nmDac' = st.toDac
    /\ nmCalls' = NoiseMakerCalls(op)
    /\ nmHist' = Append(nmHist, op)
    /\ UNCHANGED nmStatus
    /\ UNCHANGED lifeVars
    /\ UNCHANGED ctlVars

NoisePlay == NoiseLifecycle("play")
NoiseStop == NoiseLifecycle("stop")
NoiseOut  == NoiseLifecycle("out")

NextNoise ==
    \/ NoiseMaker_init
    \/ NoisePlay
    \/ NoiseStop
    \/ NoiseOut

SpecNoise == Init /\ [][NextNoise]_vars

(***************************************************************************)
(* The control surface of a constructed instrument                         *)
(***************************************************************************)
Pitches == {220, 440}
\* slider ends 0.1 and 2 and the default 1, line 125
Bends == {BendScale \div 10, BendScale, 2 * BendScale}
Octaves == 1..MaxOctave
Detunes == (0 - MaxDetune)..MaxDetune
Contours == 0..ContourSteps

\* the state after MiniMoog(ov) for an accepted ov
InitCtl ==
    /\ overload \in {0, 1}
    /\ status = "ok"
    /\ nodes = CreatedNodes(overload)
    /\ inputs = Wiring(overload)
    /\ running = CreatedNodes(overload)
    /\ toDac = {}
    /\ calls = <<>>
    /\ hist = <<>>
    /\ order = NoOrder
    /\ nmStatus = "none"
    /\ nmRunning = {}
    /\ nmDac = {}
    /\ nmCalls = <<>>
    /\ nmHist = <<>>
    /\ pitch = 0
    /\ bend = SigDefault * BendScale
    /\ octave = [i \in 1..3 |-> SigDefault]
    /\ detune = [i \in 2..3 |-> SigDefault]
    /\ contour = SigDefault * ContourSteps

\* a key of the keyboard opened by _notes.keyboard()
NoteOn(p) ==
    /\ pitch' = p
    /\ UNCHANGED <<bend, octave, detune, contour>>
    /\ UNCHANGED lifeVars
    /\ UNCHANGED nmVars

\* slider "Pitch Bend"
SetBend(b) ==
    /\ bend' = b
    /\ UNCHANGED <<pitch, octave, detune, contour>>
    /\ UNCHANGED lifeVars
    /\ UNCHANGED nmVars

\* sliders "OSC i Octaves"
SetOctave(i, o) ==
    /\ octave' = [octave EXCEPT ![i] = o]
    /\ UNCHANGED <<pitch, bend, detune, contour>>
    /\ UNCHANGED lifeVars
    /\ UNCHANGED nmVars

\* sliders "OSC i Detuner"
SetDetune(i, d) ==
    /\ detune' = [detune EXCEPT ![i] = d]
    /\ UNCHANGED <<pitch, bend, octave, contour>>
    /\ UNCHANGED lifeVars
    /\ UNCHANGED nmVars

\* slider "Contour Amount"
SetContour(c) ==
    /\ contour' = c
    /\ UNCHANGED <<pitch, bend, octave, detune>>
    /\ UNCHANGED lifeVars
    /\ UNCHANGED nmVars

NextCtl ==
    \/ \E p \in Pitches : NoteOn(p)
    \/ \E b \in Bends : SetBend(b)
    \/ \E i \in 1..3, o \in Octaves : SetOctave(i, o)
    \/ \E i \in 2..3, d \in Detunes : SetDetune(i, d)
    \/ \E c \in Contours : SetContour(c)

SpecCtl == InitCtl /\ [][NextCtl]_vars

\* frequency of oscillator i in units of 1/BendScale Hz, lines 84-86
OscFreq_AddDetune(i) ==
    pitch * bend * octave[i] + (IF i = 1 THEN 0 ELSE BendScale * detune[i])

OscFreq(i) ==
    pitch * bend * octave[i] - (IF i = 1 THEN 0 ELSE BendScale * detune[i])

\* the literal 0.1 of lines 93 and 111 is 1 / NoAdsrGainDen
NoAdsrGainDen == 10

\* one, in the unit of the filter weights: 1 / (NoAdsrGainDen * ContourSteps)
WeightOne == NoAdsrGainDen * ContourSteps

FilterMul_Unscaled(f) ==
    IF f \in {"ladderfilter1noadsr", "ladderfilter2noadsr"}
    THEN NoAdsrGainDen * (ContourSteps - contour)
    ELSE NoAdsrGainDen * contour

\* the mul of filter f: 0.1*(1-contour) for the fixed-cutoff branches,
\* 1*contour for the enveloped ones, lines 93, 94, 110, 111
FilterMul(f) ==
    IF f \in {"ladderfilter1noadsr", "ladderfilter2noadsr"}
    THEN ContourSteps - contour
    ELSE NoAdsrGainDen * contour

(***************************************************************************)
(* Helpers of the properties                                               *)
(***************************************************************************)
Oscillators == {"osc1", "osc2", "osc3"}
FirstPair  == {"ladderfilter1noadsr", "ladderfilter1withadsrenvelope"}
SecondPair == {"ladderfilter2noadsr", "ladderfilter2withadsrenvelope"}

\* the sub-nodes an instrument built with overload ov owns
SubNodes(ov) == FirstStageNodes \cup (IF ov = 1 THEN SecondStageNodes ELSE {})

\* lengths of the paths from src to n in the graph G (node -> its inputs)
RECURSIVE PathLens(_, _, _)
PathLens(G, src, n) ==
    IF n = src THEN {0}
    ELSE UNION {{l + 1 : l \in PathLens(G, src, i)} : i \in G[n]}

Max(S) == CHOOSE x \in S : \A y \in S : y <= x
Min(S) == CHOOSE x \in S : \A y \in S : x <= y

Started(h) == h # <<>> /\ Last(h) \in {"play", "out"}
Stopped(h) == h # <<>> /\ Last(h) = "stop"

\* frequency of oscillator i with its detune control left out
Undetuned(i) == pitch * bend * octave[i]

(***************************************************************************)
(* Properties                                                              *)
(***************************************************************************)
\* C1: construction succeeds exactly when overload is 0 or 1 and raises for
\* every other value; no other value yields a constructed instrument.
C1_OverloadValidated ==
    status # "none" =>
        \/ status = "ok" /\ overload \in {0, 1}
        \/ status = "failed" /\ overload \notin {0, 1}

C1_Witness == status = "failed" /\ overload \notin {0, 1}

\* C2 (as claimed): when construction fails, no node has been created.
C2_NoNodesOnFailure == status = "failed" => nodes = {}

\* C3 (as claimed): once stop() has returned, no owned node is running.
C3_AllStoppedAfterStop ==
    (status = "ok" /\ Stopped(hist)) => running \cap SubNodes(overload) = {}

\* C4: once play() or out() has returned, every owned node is running, the
\* second-stage nodes included when overload is 1.
C4_AllRunningAfterStart ==
    (status = "ok" /\ Started(hist)) =>
        /\ SubNodes(overload) \subseteq running
        /\ SubNodes(overload) \subseteq nodes

C4_Witness ==
    /\ status = "ok" /\ overload = 1
    /\ Len(hist) >= 2 /\ hist[Len(hist) - 1] = "stop" /\ Last(hist) = "play"
    /\ SubNodes(overload) \subseteq running

\* C5 (as claimed): each of NoiseMaker.play, out and stop forwards the call to
\* the white source and to the pink source.
C5_BothSourcesForwarded ==
    (nmStatus = "ok" /\ nmHist # <<>>) =>
        LET m == IF Last(nmHist) = "stop" THEN "stop" ELSE "play"
        IN  /\ \A src \in {"noise1", "noise2"} :
                  \E i \in 1..Len(nmCalls) : nmCalls[i] = <<src, m>>
            /\ Last(nmHist) = "stop" => nmRunning \cap {"noise1", "noise2"} = {}
            /\ Last(nmHist) # "stop" => {"noise1", "noise2"} \subseteq nmRunning

C7_SameOrder ==
    status = "ok" =>
        /\ \A a \in Ops, b \in Ops :
              (order[a] # <<>> /\ order[b] # <<>>) => order[a] = order[b]
        /\ \A a \in Ops :
              order[a] # <<>> =>
                  /\ Last(order[a]) = "output"
                  /\ \A i \in 1..Len(order[a]), j \in 1..Len(order[a]) :
                        (order[a][i] \in SecondStageNodes /\ order[a][j] \in FirstPair)
                            => j < i

C7_Witness ==
    /\ status = "ok" /\ overload = 1
    /\ \A a \in Ops : order[a] # <<>>
    /\ \E i \in 1..Len(order["stop"]) : order["stop"][i] = "mixed2"

\* C8 (as claimed): with overload = 1 the second stage is added after the
\* first, and every path from an oscillator to the final output is strictly
\* longer than with overload = 0.
C8_EveryPathLonger ==
    (status = "ok" /\ overload = 1) =>
        /\ {"mixed1"} \cup FirstPair \subseteq nodes
        /\ "exitinput" \in inputs["mixed2"]
        /\ \A o \in Oscillators :
              \A l \in PathLens(inputs, o, "output") :
                  \A k \in PathLens(Wiring(0), o, "output") : l > k

\* C8 (amended): with overload = 1 the first mixer and filter pair still
\* exist, their modulated output is an input of the second mixer and the
\* final output is taken from the second pair; the longest path from an
\* oscillator to the final output is strictly longer than with overload = 0,
\* the shortest one (oscillator straight into the second mixer) is as long.
C8_SecondStageAdded ==
    status = "ok" =>
        /\ overload = 0 =>
              /\ inputs["output"] \cap (FirstPair \cup SecondPair) = FirstPair
              /\ nodes \cap SecondStageNodes = {}
        /\ overload = 1 =>
              /\ {"mixed1"} \cup FirstPair \subseteq nodes
              /\ FirstPair \subseteq inputs["exitinput"]
              /\ "exitinput" \in inputs["mixed2"]
              /\ inputs["output"] \cap (FirstPair \cup SecondPair) = SecondPair
              /\ \A o \in Oscillators :
                    /\ Max(PathLens(inputs, o, "output"))
                          > Max(PathLens(Wiring(0), o, "output"))
                    /\ Min(PathLens(inputs, o, "output"))
                          = Min(PathLens(Wiring(0), o, "output"))

C8_Witness ==
    /\ status = "ok" /\ overload = 1
    /\ "exitinput" \in inputs["mixed2"]
    /\ Max(PathLens(inputs, "osc1", "output")) > Min(PathLens(inputs, "osc1", "output"))

\* C9 (as claimed): with its detune control at 0, oscillator 2 (3) has the
\* frequency of oscillator 1 whatever the octave controls; a detune d moves
\* it by exactly d from its undetuned frequency.
C9_UnisonAtZeroDetune ==
    status = "ok" =>
        \A i \in 2..3 :
            /\ detune[i] = 0 => OscFreq(i) = OscFreq(1)
            /\ Undetuned(i) - OscFreq(i) = BendScale * detune[i]

\* C9 (amended): with its detune control at 0 and its octave control equal
\* to oscillator 1's, oscillator 2 (3) has the frequency of oscillator 1; a
\* detune d puts it exactly d below its undetuned frequency.
C9_UnisonAtEqualOctave ==
    status = "ok" =>
        \A i \in 2..3 :
            /\ (detune[i] = 0 /\ octave[i] = octave[1]) => OscFreq(i) = OscFreq(1)
            /\ (detune[i] = 0 /\ pitch > 0 /\ octave[i] # octave[1])
                    => OscFreq(i) # OscFreq(1)
            /\ Undetuned(i) - OscFreq(i) = BendScale * detune[i]

C9_Witness ==
    /\ status = "ok" /\ pitch > 0
    /\ detune[2] = 0 /\ octave[2] = octave[1] /\ OscFreq(2) = OscFreq(1)
    /\ detune[3] # 0 /\ OscFreq(3) # Undetuned(3)

\* C10: out() routes only the final output to the output bus; every sub-node
\* is started with play, so no internal node is ever routed to the bus.
C10_OnlyOutputRouted ==
    status = "ok" =>
        /\ toDac \subseteq {"output"}
        /\ \A i \in 1..Len(calls) : calls[i][2] = "out" => calls[i][1] = "output"
        /\ (hist # <<>> /\ Last(hist) = "out") => toDac = {"output"}

C10_Witness ==
    /\ status = "ok" /\ hist # <<>> /\ Last(hist) = "out"
    /\ toDac = {"output"}
    /\ SubNodes(overload) \subseteq running

====
